---- MODULE Spec2Model ----
(***************************************************************************)
(* Frogger (src/src/main.ts): the state transducer reduceState, the        *)
(* collision engine handleCollisions, the regenerator newGameState and the *)
(* driver startGame/updateView that threads events through them.           *)
(*                                                                         *)
(* Numbers.  The program computes with doubles; the model uses exact       *)
(* integers in a fixed-point scale:                                        *)
(*   - every coordinate and size is held in units of 1/20 pixel (Px),      *)
(*   - every velX is held in half pixels per tick (vel 0.5 is 1),          *)
(*   - levelMultiplier is held in tenths (0.5 is 5, "+ 0.1" is "+ 1"),     *)
(* so that velX * levelMultiplier is a displacement in 1/20 pixel.         *)
(* Scores, lives, levels and times are plain integers.                     *)
(***************************************************************************)
EXTENDS Integers, Sequences, FiniteSets, TLC

\* ------------------------------------------------------------------------
\* Exploration bounds
\* ------------------------------------------------------------------------
\* key presses delivered to the game while exploring from a start state
MaxMoves == 2
\* clock ticks delivered while exploring from a start state
MaxTicks == 2
\* presses of the R key (Restart event or restart prompt) while exploring
MaxRestarts == 2

\* ------------------------------------------------------------------------
\* Constants (main.ts 57-72)
\* ------------------------------------------------------------------------
CANVAS_WIDTH == 600
CANVAS_HEIGHT == 550
START_TIME == 0
VEHICLE_ROW_COUNT == 4
PLANK_ROW_COUNT == 4
CROCODILE_COUNT == 1
DESTINATION_COUNT == 5
FROG_START_X == 300
FROG_START_Y == 510
FLY_START_X == -100
FLY_START_Y == 15

\* fixed-point scale: halves (velocities) times tenths (multiplier)
U == 2 * 10
Px(n) == n * U
\* a velocity given in half pixels per tick
Half(n) == n

\* ------------------------------------------------------------------------
\* Entity model and world layout (main.ts 196-321)
\* ------------------------------------------------------------------------
createRectangle(viewType, oid, x, y, height, width, velX) ==
  [id |-> viewType \o oid, viewType |-> viewType, createTime |-> START_TIME,
   x |-> Px(x), y |-> Px(y), height |-> Px(height), width |-> Px(width),
   velX |-> velX]

createFrog ==
  [id |-> "frog", viewType |-> "frog", createTime |-> 0,
   x |-> Px(CANVAS_WIDTH) \div 2, y |-> Px(CANVAS_HEIGHT - 40),
   height |-> Px(30), width |-> Px(30), velX |-> Half(0)]

createFly ==
  [id |-> "fly", viewType |-> "fly", createTime |-> 0,
   x |-> Px(-100), y |-> Px(15),
   height |-> Px(20), width |-> Px(20), velX |-> Half(0)]

y_vehicles == <<-140, -90, -240, -190>>
\* -0.5, 2, -1, 3 in half pixels
vel_vehicles == <<Half(-1), Half(4), Half(-2), Half(6)>>
y_planks == <<-340, -490, -390, -440>>
width_planks == <<100, 100, 200, 300>>
\* 1, -2, 2, -1 in half pixels
vel_planks == <<Half(2), Half(-4), Half(4), Half(-2)>>
x_dests == <<25, 150, 275, 400, 525>>

\* [...Array(n)].map((_, i) => f(i)) for i = 0 .. n-1
ArrayMap(n, f(_)) == [k \in 1..n |-> f(k - 1)]

startVehicles == ArrayMap(VEHICLE_ROW_COUNT, LAMBDA i :
  createRectangle("vehicle", ToString(i) \o "a", 0, CANVAS_HEIGHT + y_vehicles[i + 1], 30, 50, vel_vehicles[i + 1]))
startVehicles2 == ArrayMap(VEHICLE_ROW_COUNT, LAMBDA i :
  createRectangle("vehicle", ToString(i) \o "b", 150, CANVAS_HEIGHT + y_vehicles[i + 1], 30, 50, vel_vehicles[i + 1]))
startVehicles3 == ArrayMap(VEHICLE_ROW_COUNT - 1, LAMBDA i :
  createRectangle("vehicle", ToString(i) \o "c", 300, CANVAS_HEIGHT + y_vehicles[i + 1], 30, 50, vel_vehicles[i + 1]))
startVehicles4 == ArrayMap(VEHICLE_ROW_COUNT - 3, LAMBDA i :
  createRectangle("vehicle", ToString(i) \o "d", 450, CANVAS_HEIGHT + y_vehicles[i + 1], 30, 50, vel_vehicles[i + 1]))
startPlanks == ArrayMap(PLANK_ROW_COUNT, LAMBDA i :
  createRectangle("plank", ToString(i) \o "a", 0, CANVAS_HEIGHT + y_planks[i + 1], 30, width_planks[i + 1], vel_planks[i + 1]))
startPlanks2 == ArrayMap(PLANK_ROW_COUNT - 2, LAMBDA i :
  createRectangle("plank", ToString(i) \o "b", 200, CANVAS_HEIGHT + y_planks[i + 1], 30, width_planks[i + 1], vel_planks[i + 1]))
startPlanks3 == ArrayMap(PLANK_ROW_COUNT - 2, LAMBDA i :
  createRectangle("plank", ToString(i) \o "c", 400, CANVAS_HEIGHT + y_planks[i + 1], 30, width_planks[i + 1], vel_planks[i + 1]))
startCroc == ArrayMap(CROCODILE_COUNT, LAMBDA i :
  createRectangle("crocodile", ToString(i), 300, CANVAS_HEIGHT + y_planks[3], 30, width_planks[3], vel_planks[3]))
startCrocHead == ArrayMap(CROCODILE_COUNT, LAMBDA i :
  createRectangle("crochead", ToString(i), 480, CANVAS_HEIGHT + y_planks[3], 30, 50, vel_planks[3]))
startDest == ArrayMap(DESTINATION_COUNT, LAMBDA i :
  createRectangle("end", ToString(i), x_dests[i + 1], 2, 48, 60, Half(0)))
startBlocks == ArrayMap(DESTINATION_COUNT, LAMBDA i :
  createRectangle("block", ToString(i), x_dests[i + 1], 2, 48, 60, Half(0)))

\* ------------------------------------------------------------------------
\* Geometry and motion (main.ts 328-356)
\* ------------------------------------------------------------------------
torusWrap(c) ==
  LET w == Px(CANVAS_WIDTH)
  IN  IF c <= 0 THEN c + w ELSE IF c >= w THEN c - w ELSE c

borderBlock(c) ==
  LET h == Px(CANVAS_HEIGHT)
  IN  IF c <= 0 THEN c + Px(50) ELSE IF c >= h THEN c - Px(50) ELSE c

\* variant: the level multiplier is left out of the displacement
moveBodyUnscaled(o, s) ==
  [o EXCEPT !.x = torusWrap(o.x + o.velX * 10),
            !.y = borderBlock(o.y)]

moveBody(o, s) ==
  [o EXCEPT !.x = torusWrap(o.x + o.velX * s.levelMultiplier),
            !.y = borderBlock(o.y)]

MapSeq(q, f(_)) == [k \in 1..Len(q) |-> f(q[k])]

\* ------------------------------------------------------------------------
\* Collision detection (main.ts 372-405); s is the state after motion
\* ------------------------------------------------------------------------
bodiesCollided(a, b) ==
  /\ a.x + a.width >= b.x
  /\ a.x <= b.x + b.width
  /\ a.y + a.height <= b.y + b.height
  /\ a.y >= b.y

collidedPlanks(s) ==
     SelectSeq(s.planks, LAMBDA p : bodiesCollided(s.frog, p))
  \o SelectSeq(s.planks2, LAMBDA p : bodiesCollided(s.frog, p))
  \o SelectSeq(s.planks3, LAMBDA p : bodiesCollided(s.frog, p))
  \o SelectSeq(s.croc, LAMBDA p : bodiesCollided(s.frog, p))

collidedVehicle(s) ==
     SelectSeq(s.vehicles, LAMBDA v : bodiesCollided(s.frog, v))
  \o SelectSeq(s.vehicles2, LAMBDA v : bodiesCollided(s.frog, v))
  \o SelectSeq(s.vehicles3, LAMBDA v : bodiesCollided(s.frog, v))
  \o SelectSeq(s.vehicles4, LAMBDA v : bodiesCollided(s.frog, v))

\* variant: the edge columns themselves are not part of the border
collidedSidesStrict(s) == s.frog.x > Px(CANVAS_WIDTH) \/ s.frog.x < 0

collidedSides(s) == s.frog.x >= Px(CANVAS_WIDTH) \/ s.frog.x <= 0

collidedRiver(s) ==
  s.frog.y >= Px(50) /\ s.frog.y <= Px(250) /\ Len(collidedPlanks(s)) <= 0

collidedEnd(s) == SelectSeq(s.destinations, LAMBDA d : bodiesCollided(s.frog, d))

collidedCrocHead(s) == SelectSeq(s.crocHead, LAMBDA c : bodiesCollided(s.frog, c))

collidedFinalZone(s) == s.frog.y <= Px(50) /\ Len(collidedEnd(s)) <= 0

collidedBlocks(s) == SelectSeq(s.blocks, LAMBDA b : bodiesCollided(s.frog, b))

collidedFly(s) == bodiesCollided(s.fly, s.frog)

\* variant: vehicles left out of the death condition
collidedDeathNoVehicle(s) ==
  \/ collidedSides(s)
  \/ collidedRiver(s)
  \/ Len(collidedCrocHead(s)) > 0

collidedDeath(s) ==
  \/ Len(collidedVehicle(s)) > 0
  \/ collidedSides(s)
  \/ collidedRiver(s)
  \/ Len(collidedCrocHead(s)) > 0

\* JavaScript truthiness of an array value: every object is truthy, the
\* empty array included, so "!collidedBlocks" is false for every array
ArrayTruthy(a) == TRUE

\* ------------------------------------------------------------------------
\* Collision resolution (main.ts 407-430), one operator per result field
\* ------------------------------------------------------------------------
hcFrog(s) ==
  LET hit == Len(collidedEnd(s)) > 0 \/ collidedDeath(s)
  IN  [s.frog EXCEPT
        !.x = IF hit THEN Px(FROG_START_X) ELSE s.frog.x,
        !.y = IF hit THEN Px(FROG_START_Y)
              ELSE IF collidedFinalZone(s) \/ Len(collidedBlocks(s)) > 0
                   THEN s.frog.y + Px(50) ELSE s.frog.y,
        !.velX = IF Len(collidedPlanks(s)) > 0 THEN collidedPlanks(s)[1].velX ELSE Half(0)]

hcFly(s) ==
  [s.fly EXCEPT
    !.x = IF collidedFly(s) THEN Px(FLY_START_X) ELSE s.fly.x,
    !.y = IF collidedFly(s) THEN Px(FLY_START_Y) ELSE s.fly.y]

hcReachDestID(s) == IF Len(collidedEnd(s)) > 0 THEN collidedEnd(s)[1].id ELSE ""

hcDestinations(s) ==
  MapSeq(s.destinations,
         LAMBDA b : IF b.id = s.reachDestID THEN [b EXCEPT !.y = b.y - Px(100)] ELSE b)

hcReachDestCount(s) ==
  IF Len(collidedEnd(s)) > 0 THEN s.reachDestCount + 1 ELSE s.reachDestCount

hcLevelPassed(s) == IF s.reachDestCount = DESTINATION_COUNT THEN TRUE ELSE FALSE

hcDestScore(s) == IF Len(collidedEnd(s)) > 0 THEN s.destScore + 100 ELSE s.destScore

hcFliesScore(s) ==
  IF collidedFly(s) /\ ~ArrayTruthy(collidedBlocks(s))
  THEN s.fliesScore + 50 ELSE s.fliesScore

hcTotalScore(s) == s.destScore + s.fliesScore + s.moveScore

\* variant: the high score is overwritten with the total
hcHighScoreIsTotal(s) == s.totalScore

hcHighScore(s) == IF s.totalScore >= s.highScore THEN s.totalScore ELSE s.highScore

\* variant: a crocodile head is harmless while a support is overlapped
hcLivesCountHeadSupported(s) ==
  IF \/ Len(collidedVehicle(s)) > 0
     \/ collidedSides(s)
     \/ collidedRiver(s)
     \/ (Len(collidedCrocHead(s)) > 0 /\ Len(collidedPlanks(s)) = 0)
  THEN s.livesCount - 1 ELSE s.livesCount

hcLivesCount(s) == IF collidedDeath(s) THEN s.livesCount - 1 ELSE s.livesCount

\* variant: the flag follows the decremented count
hcGameOverAfterDecrement(s) == IF hcLivesCount(s) = 0 THEN TRUE ELSE FALSE

\* variant: the flag is raised while one life is left
hcGameOverAtLastLife(s) == IF s.livesCount <= 1 THEN TRUE ELSE FALSE

hcGameOver(s) == IF s.livesCount = 0 THEN TRUE ELSE FALSE

handleCollisions(s) ==
  [s EXCEPT
    !.frog = hcFrog(s),
    !.fly = hcFly(s),
    !.reachDestID = hcReachDestID(s),
    !.destinations = hcDestinations(s),
    !.reachDestCount = hcReachDestCount(s),
    !.levelPassed = hcLevelPassed(s),
    !.destScore = hcDestScore(s),
    !.fliesScore = hcFliesScore(s),
    !.totalScore = hcTotalScore(s),
    !.highScore = hcHighScore(s),
    !.livesCount = hcLivesCount(s),
    !.gameOver = hcGameOver(s)]

\* ------------------------------------------------------------------------
\* Initial game state (main.ts 437-464)
\* ------------------------------------------------------------------------
initialState ==
  [time |-> 0,
   frog |-> createFrog,
   vehicles |-> startVehicles,
   vehicles2 |-> startVehicles2,
   vehicles3 |-> startVehicles3,
   vehicles4 |-> startVehicles4,
   planks |-> startPlanks,
   planks2 |-> startPlanks2,
   planks3 |-> startPlanks3,
   croc |-> startCroc,
   crocHead |-> startCrocHead,
   destinations |-> startDest,
   blocks |-> startBlocks,
   fly |-> createFly,
   reachDestCount |-> 0,
   reachDestID |-> "",
   destScore |-> 0,
   fliesScore |-> 0,
   moveScore |-> 0,
   totalScore |-> 0,
   highScore |-> 0,
   level |-> 1,
   levelPassed |-> FALSE,
   levelMultiplier |-> 5,
   gameOver |-> FALSE,
   livesCount |-> 3]

\* ------------------------------------------------------------------------
\* Events and the state transducer (main.ts 86-131, 476-512)
\* ------------------------------------------------------------------------
Tick(elapsed) == [type |-> "Tick", elapsed |-> elapsed]
Move(x, y, isScore) == [type |-> "Move", x |-> Px(x), y |-> Px(y), isScore |-> isScore]
RestartEvent == [type |-> "Restart"]

moveUp == Move(0, -50, TRUE)
moveDown == Move(0, 50, FALSE)
moveLeft == Move(-50, 0, FALSE)
moveRight == Move(50, 0, FALSE)
KeyMoves == {moveUp, moveDown, moveLeft, moveRight}

\* the values Math.floor(Math.random() * DESTINATION_COUNT) can take
RandomIndex == 0..(DESTINATION_COUNT - 1)

\* tick calls Math.random only when the fly is due to spawn
flySpawns(s) == s.time % 500 = 0 /\ s.time # 0
RandomDraws(s) == IF flySpawns(s) THEN RandomIndex ELSE {0}

\* the motion half of tick: the argument tick hands to handleCollisions;
\* rnd is the index drawn from Math.random on this call
tickMotion(s, elapsed, rnd) ==
  [s EXCEPT
    !.frog = moveBody(s.frog, s),
    !.vehicles = MapSeq(s.vehicles, LAMBDA x : moveBody(x, s)),
    !.vehicles2 = MapSeq(s.vehicles2, LAMBDA x : moveBody(x, s)),
    !.vehicles3 = MapSeq(s.vehicles3, LAMBDA x : moveBody(x, s)),
    !.vehicles4 = MapSeq(s.vehicles4, LAMBDA x : moveBody(x, s)),
    !.planks = MapSeq(s.planks, LAMBDA x : moveBody(x, s)),
    !.planks2 = MapSeq(s.planks2, LAMBDA x : moveBody(x, s)),
    !.planks3 = MapSeq(s.planks3, LAMBDA x : moveBody(x, s)),
    !.croc = MapSeq(s.croc, LAMBDA x : moveBody(x, s)),
    !.crocHead = MapSeq(s.crocHead, LAMBDA x : moveBody(x, s)),
    !.fly = [s.fly EXCEPT
              !.x = IF flySpawns(s)
                    THEN Px(x_dests[rnd + 1] + 20) ELSE s.fly.x],
    !.time = elapsed]

tick(s, elapsed, rnd) == handleCollisions(tickMotion(s, elapsed, rnd))

\* variant: every forward move scores, the last rows included
rsMoveScoreAnyRow(s, e) == IF e.isScore THEN s.moveScore + 10 ELSE s.moveScore

rsMoveScore(s, e) == IF e.isScore /\ s.frog.y > Px(100) THEN s.moveScore + 10 ELSE s.moveScore

\* variant: Restart also takes the remaining lives
reduceStateRestartTakesLives(s, e, rnd) ==
  IF e.type = "Move"
  THEN [s EXCEPT !.frog = [s.frog EXCEPT !.x = s.frog.x + e.x, !.y = s.frog.y + e.y],
                 !.moveScore = rsMoveScore(s, e)]
  ELSE IF e.type = "Restart"
  THEN [s EXCEPT !.gameOver = TRUE, !.livesCount = 0]
  ELSE tick(s, e.elapsed, rnd)

reduceState(s, e, rnd) ==
  IF e.type = "Move"
  THEN [s EXCEPT !.frog = [s.frog EXCEPT !.x = s.frog.x + e.x, !.y = s.frog.y + e.y],
                 !.moveScore = rsMoveScore(s, e)]
  ELSE IF e.type = "Restart"
  THEN [s EXCEPT !.gameOver = TRUE]
  ELSE tick(s, e.elapsed, rnd)

\* ------------------------------------------------------------------------
\* Level / session regenerator (main.ts 657-724)
\* ------------------------------------------------------------------------
freshLayout(s) ==
  [s EXCEPT
    !.time = 0,
    !.frog = createFrog,
    !.vehicles = startVehicles,
    !.vehicles2 = startVehicles2,
    !.vehicles3 = startVehicles3,
    !.vehicles4 = startVehicles4,
    !.planks = startPlanks,
    !.planks2 = startPlanks2,
    !.planks3 = startPlanks3,
    !.croc = startCroc,
    !.crocHead = startCrocHead,
    !.destinations = startDest,
    !.blocks = startBlocks,
    !.reachDestCount = 0,
    !.fly = createFly,
    !.reachDestID = ""]

\* variant: the high score is reset with the other scores
gameOverStateClearsHigh(s) ==
  [freshLayout(s) EXCEPT
    !.destScore = 0,
    !.fliesScore = 0,
    !.moveScore = 0,
    !.totalScore = 0,
    !.highScore = 0,
    !.level = 1,
    !.levelPassed = FALSE,
    !.levelMultiplier = 5,
    !.gameOver = FALSE,
    !.livesCount = 3]

gameOverState(s) ==
  [freshLayout(s) EXCEPT
    !.destScore = 0,
    !.fliesScore = 0,
    !.moveScore = 0,
    !.totalScore = 0,
    !.level = 1,
    !.levelPassed = FALSE,
    !.levelMultiplier = 5,
    !.gameOver = FALSE,
    !.livesCount = 3]

\* variant: the level number is carried over unchanged
levelPassedStateKeepsLevel(s) ==
  [freshLayout(s) EXCEPT
    !.destScore = s.destScore,
    !.fliesScore = s.fliesScore,
    !.moveScore = s.moveScore,
    !.totalScore = s.totalScore,
    !.level = s.level,
    !.levelPassed = FALSE,
    !.levelMultiplier = s.levelMultiplier + 1,
    !.gameOver = FALSE,
    !.livesCount = s.livesCount]

\* variant: the total is reset as on a game over
levelPassedStateClearsTotal(s) ==
  [freshLayout(s) EXCEPT
    !.destScore = s.destScore,
    !.fliesScore = s.fliesScore,
    !.moveScore = s.moveScore,
    !.totalScore = 0,
    !.level = s.level + 1,
    !.levelPassed = FALSE,
    !.levelMultiplier = s.levelMultiplier + 1,
    !.gameOver = FALSE,
    !.livesCount = s.livesCount]

levelPassedState(s) ==
  [freshLayout(s) EXCEPT
    !.destScore = s.destScore,
    !.fliesScore = s.fliesScore,
    !.moveScore = s.moveScore,
    !.totalScore = s.totalScore,
    !.level = s.level + 1,
    !.levelPassed = FALSE,
    !.levelMultiplier = s.levelMultiplier + 1,
    !.gameOver = FALSE,
    !.livesCount = s.livesCount]

newGameState(s) ==
  IF s.gameOver THEN gameOverState(s)
  ELSE IF s.levelPassed THEN levelPassedState(s)
  ELSE s

\* ------------------------------------------------------------------------
\* Driver: startGame and updateView (main.ts 520-647, 732-744)
\*
\* A driver state d is a record
\*   s     the accumulator of the subscribed stream's scan (the seed until
\*         the first event); after a game over, the state captured by the
\*         restart prompt
\*   view  the state last handed to updateView
\*   clock the next value of the subscription's interval(10)
\*   mode  "playing" while a stream is subscribed, "gameover" while the
\*         restart prompt listens for the r key
\*   subs  the number of subscriptions of the merged event stream that
\*         have not been unsubscribed
\* ------------------------------------------------------------------------
startGame(seed, view, subs) ==
  [s |-> seed, view |-> view, clock |-> 0, mode |-> "playing", subs |-> subs + 1]

\* subscription.unsubscribe() of the stream that made the emission
unsubscribe(d) == [d EXCEPT !.subs = d.subs - 1]

\* variant: the old stream is left subscribed when a level is passed
emitKeepsStream(d, e, rnd) ==
  LET n == reduceState(d.s, e, rnd)
      c == IF e.type = "Tick" THEN d.clock + 1 ELSE d.clock
  IN  IF n.gameOver
      THEN unsubscribe([s |-> n, view |-> n, clock |-> 0, mode |-> "gameover", subs |-> d.subs])
      ELSE IF n.levelPassed
      THEN startGame(newGameState(n), n, d.subs)
      ELSE [s |-> n, view |-> n, clock |-> c, mode |-> "playing", subs |-> d.subs]

\* one emission of the merged stream: scan(reduceState), then the
\* subscriber (updateView, then unsubscribe on a terminal flag)
emit(d, e, rnd) ==
  LET n == reduceState(d.s, e, rnd)
      c == IF e.type = "Tick" THEN d.clock + 1 ELSE d.clock
  IN  IF n.gameOver
      THEN unsubscribe([s |-> n, view |-> n, clock |-> 0, mode |-> "gameover", subs |-> d.subs])
      ELSE IF n.levelPassed
      THEN unsubscribe(startGame(newGameState(n), n, d.subs))
      ELSE [s |-> n, view |-> n, clock |-> c, mode |-> "playing", subs |-> d.subs]

\* the r key while the restart prompt is shown
restartKeyDown(d) == startGame(newGameState(d.s), d.view, d.subs)

\* ------------------------------------------------------------------------
\* Start states: the states the driver is in after a fixed input script,
\* played from startGame(initialState) through emit
\* ------------------------------------------------------------------------
Rep(x, n) == [k \in 1..n |-> x]

up(n) == Rep(moveUp, n)
left(n) == Rep(moveLeft, n)
right(n) == Rep(moveRight, n)
clockTick == [type |-> "Tick"]

\* one delivery of a script entry; a clock entry carries the interval's value
play1(d, e) ==
  IF e.type = "Tick" THEN emit(d, Tick(d.clock), 0) ELSE emit(d, e, 0)

RECURSIVE play(_, _)
play(d, q) ==
  IF Len(q) = 0 THEN d
  ELSE IF Len(q) = 1 THEN play1(d, q[1])
  ELSE LET h == Len(q) \div 2
           m == play(d, SubSeq(q, 1, h))
       IN  IF m = m THEN play(m, SubSeq(q, h + 1, Len(q))) ELSE m

\* hop from the start position into a goal zone: side steps, ten rows up, tick
hop(side) == side \o up(10) \o <<clockTick>>

fourGoals == hop(left(5)) \o hop(left(3)) \o hop(<<>>) \o hop(right(2))

goalsOneToFour == hop(left(3)) \o hop(<<>>) \o hop(right(2)) \o hop(right(4))

Scripts ==
  << <<>>,                                           \* a fresh game
     fourGoals \o right(4) \o up(9),                 \* below the fifth goal zone
     hop(<<>>) \o up(9),                             \* below a zone just reached
     Rep(clockTick, 501) \o up(9),                   \* below a zone as the fly spawns
     <<moveUp, clockTick, moveUp, clockTick>>,       \* run over twice
     up(5),                                          \* on the bank of the river
     right(4) \o up(6),                              \* beside the crocodile
     right(5),                                       \* next to the right edge
     right(6) \o up(9),                             \* beyond the right edge, top row
     <<moveUp, clockTick, moveUp, clockTick>>        \* last life, last goal zone,
       \o goalsOneToFour \o right(6) \o up(9) >>     \*   beyond the right edge

StartStates == {play(startGame(initialState, initialState, 0), Scripts[k]) : k \in 1..Len(Scripts)}

\* ------------------------------------------------------------------------
\* The state machine
\*   s, view, clock, mode, subs   the driver state
\*   prev, last             history: the state the last event was applied to
\*                          and that event (with the random index drawn)
\*   nMoves, nTicks, nRestarts   events delivered since the start state
\* ------------------------------------------------------------------------
VARIABLES s, view, clock, mode, subs, prev, last, nMoves, nTicks, nRestarts

vars == <<s, view, clock, mode, subs, prev, last, nMoves, nTicks, nRestarts>>

driver == [s |-> s, view |-> view, clock |-> clock, mode |-> mode, subs |-> subs]

setDriver(d) ==
  /\ s' = d.s
  /\ view' = d.view
  /\ clock' = d.clock
  /\ mode' = d.mode
  /\ subs' = d.subs

NoEvent == [type |-> "None"]
NewGameKey == [type |-> "NewGame"]

Init ==
  /\ \E d \in StartStates : /\ s = d.s
                            /\ view = d.view
                            /\ clock = d.clock
                            /\ mode = d.mode
                            /\ subs = d.subs
  /\ prev = s
  /\ last = [ev |-> NoEvent, rnd |-> 0]
  /\ nMoves = 0
  /\ nTicks = 0
  /\ nRestarts = 0

deliver(e, rnd) ==
  /\ setDriver(emit(driver, e, rnd))
  /\ prev' = s
  /\ last' = [ev |-> e, rnd |-> rnd]

\* gameClock$ emits Tick(clock)
ClockTick ==
  /\ mode = "playing"
  /\ nTicks < MaxTicks
  /\ \E rnd \in RandomDraws(s) : deliver(Tick(clock), rnd)
  /\ nTicks' = nTicks + 1
  /\ UNCHANGED <<nMoves, nRestarts>>

\* an arrow key goes down: moveUp$, moveDown$, moveLeft$, moveRight$
KeyMove ==
  /\ mode = "playing"
  /\ nMoves < MaxMoves
  /\ \E e \in KeyMoves : deliver(e, 0)
  /\ nMoves' = nMoves + 1
  /\ UNCHANGED <<nTicks, nRestarts>>

\* the R key goes down while a stream is subscribed: restart$
KeyRestart ==
  /\ mode = "playing"
  /\ nRestarts < MaxRestarts
  /\ deliver(RestartEvent, 0)
  /\ nRestarts' = nRestarts + 1
  /\ UNCHANGED <<nMoves, nTicks>>

\* the r key goes down while the restart prompt is shown
KeyNewGame ==
  /\ mode = "gameover"
  /\ nRestarts < MaxRestarts
  /\ setDriver(restartKeyDown(driver))
  /\ prev' = s
  /\ last' = [ev |-> NewGameKey, rnd |-> 0]
  /\ nRestarts' = nRestarts + 1
  /\ UNCHANGED <<nMoves, nTicks>>

Next == ClockTick \/ KeyMove \/ KeyRestart \/ KeyNewGame

Spec == Init /\ [][Next]_vars

\* the last step was an emission of the given event kind
After(kind) == last.ev.type = kind
\* the last step was a transition of reduceState: view = reduceState(prev, ..)
Reduced == After("Tick") \/ After("Move") \/ After("Restart")
\* the state handed to handleCollisions by the last Tick
Moved == tickMotion(prev, last.ev.elapsed, last.rnd)

\* ------------------------------------------------------------------------
\* Claims
\* ------------------------------------------------------------------------

\* C1: after every transition of reduceState, totalScore equals
\* destScore + fliesScore + moveScore of the resulting state.
C1_TotalIsSum ==
  Reduced =>
    view.totalScore = view.destScore + view.fliesScore + view.moveScore

\* C2: livesCount is never negative in any reachable state.
C2_LivesNonNegative == view.livesCount >= 0 /\ s.livesCount >= 0

\* C3: after every transition of reduceState, highScore >= totalScore.
C3_HighAtLeastTotal == Reduced => view.highScore >= view.totalScore

\* C4: a Tick in which the fly overlaps the player adds 50 to fliesScore,
\* a Tick without that overlap leaves fliesScore unchanged.
C4_FlyBonus ==
  After("Tick") =>
    view.fliesScore = prev.fliesScore + (IF collidedFly(Moved) THEN 50 ELSE 0)

\* C5: in every reachable state, levelPassed is true iff reachDestCount
\* equals the number of goal zones.
C5_PassedIffAllReached ==
  view.levelPassed <=> (view.reachDestCount = DESTINATION_COUNT)

\* C6 (as stated): in every reachable state, gameOver is true iff
\* livesCount is zero.
C6_GameOverIffNoLives == view.gameOver <=> (view.livesCount = 0)

\* C6 (amended): after a Tick gameOver is true iff livesCount was zero
\* before that tick; a Move leaves gameOver as it was; a Restart event
\* sets it whatever livesCount is.
C6_GameOverLagsLives ==
  /\ After("Tick") => (view.gameOver <=> (prev.livesCount = 0))
  /\ After("Move") => (view.gameOver <=> prev.gameOver)
  /\ After("Restart") => view.gameOver

C6_Witness ==
  /\ After("Tick")
  /\ prev.livesCount = 0
  /\ ~prev.gameOver
  /\ view.gameOver

\* the entity collections, the player and the fly of the initial layout
InitialLayout(g) ==
  /\ g.frog = initialState.frog
  /\ g.fly = initialState.fly
  /\ g.vehicles = initialState.vehicles
  /\ g.vehicles2 = initialState.vehicles2
  /\ g.vehicles3 = initialState.vehicles3
  /\ g.vehicles4 = initialState.vehicles4
  /\ g.planks = initialState.planks
  /\ g.planks2 = initialState.planks2
  /\ g.planks3 = initialState.planks3
  /\ g.croc = initialState.croc
  /\ g.crocHead = initialState.crocHead
  /\ g.destinations = initialState.destinations
  /\ g.blocks = initialState.blocks

\* the last emission raised levelPassed without gameOver, and the driver
\* seeded the next stream with newGameState of it
LevelAdvanced == Reduced /\ view.levelPassed /\ ~view.gameOver

\* C7: newGameState of a level-passed state that is not game over has
\* level + 1, levelMultiplier + 0.1, reachDestCount 0, reachDestID empty,
\* time 0, levelPassed false, the initial layout, and the scores, the
\* high score and the lives of the state it was given.
C7_LevelAdvance ==
  LevelAdvanced =>
    /\ s.level = view.level + 1
    /\ s.levelMultiplier = view.levelMultiplier + 1
    /\ s.reachDestCount = 0
    /\ s.reachDestID = ""
    /\ s.time = 0
    /\ s.levelPassed = FALSE
    /\ InitialLayout(s)
    /\ s.destScore = view.destScore
    /\ s.fliesScore = view.fliesScore
    /\ s.moveScore = view.moveScore
    /\ s.totalScore = view.totalScore
    /\ s.highScore = view.highScore
    /\ s.livesCount = view.livesCount

C7_Witness ==
  /\ LevelAdvanced
  /\ view.reachDestCount = DESTINATION_COUNT
  /\ view.totalScore > 0
  /\ s.level = 2
  /\ mode = "playing"

\* the restart prompt's r key was the last step: s = newGameState(prev)
NewGameStarted == After("NewGame") /\ prev.gameOver

\* C8: newGameState of a game-over state has level 1, levelMultiplier 0.5,
\* livesCount 3, all four scores 0, gameOver and levelPassed false, the
\* initial layout, and the highScore of the state it was given.
C8_GameOverReset ==
  NewGameStarted =>
    /\ s.level = 1
    /\ s.levelMultiplier = 5
    /\ s.livesCount = 3
    /\ s.destScore = 0
    /\ s.fliesScore = 0
    /\ s.moveScore = 0
    /\ s.totalScore = 0
    /\ s.gameOver = FALSE
    /\ s.levelPassed = FALSE
    /\ InitialLayout(s)
    /\ s.highScore = prev.highScore

C8_Witness ==
  /\ NewGameStarted
  /\ prev.livesCount <= 0
  /\ prev.highScore > 0
  /\ s.highScore = prev.highScore
  /\ s.livesCount = 3

\* C9: a Tick in which the player, after motion, overlaps a vehicle puts
\* the player on the start position (300, 510) and takes exactly one life.
C9_VehicleDeath ==
  (After("Tick") /\ Len(collidedVehicle(Moved)) > 0) =>
    /\ view.frog.x = Px(300)
    /\ view.frog.y = Px(510)
    /\ view.livesCount = prev.livesCount - 1

C9_Witness ==
  /\ After("Tick")
  /\ Len(collidedVehicle(Moved)) > 0
  /\ ~collidedSides(Moved)
  /\ ~collidedRiver(Moved)
  /\ view.livesCount = prev.livesCount - 1

\* C10: along Tick and Move events within a session totalScore never
\* decreases from one state to the next (the state seeding the next level
\* included).
C10_TotalNeverDecreases ==
  (After("Tick") \/ After("Move")) =>
    /\ view.totalScore >= prev.totalScore
    /\ (~view.gameOver => s.totalScore >= view.totalScore)

C10_Witness ==
  /\ After("Tick")
  /\ view.totalScore > prev.totalScore
  /\ prev.totalScore > 0

\* C11: highScore never decreases: not across a Tick, Move or Restart of
\* reduceState, and not across newGameState (level advance or game-over
\* reset).
C11_HighScoreNeverDecreases ==
  /\ Reduced => (view.highScore >= prev.highScore /\ s.highScore >= view.highScore)
  /\ After("NewGame") => s.highScore >= prev.highScore

C11_Witness ==
  /\ After("Tick")
  /\ prev.highScore > 0
  /\ view.highScore > prev.highScore

\* the supports the player overlapped on the last Tick
Supports == collidedPlanks(Moved)
\* the last Tick neither killed the player nor put it in a goal zone
StayedPut == ~collidedDeath(Moved) /\ Len(collidedEnd(Moved)) = 0

\* C12: a Tick in which the player overlaps a support with velocity v and
\* neither dies nor reaches a goal leaves the player's velX at v; a Tick
\* without support overlap leaves it at 0; a Move keeps velX, and a Tick
\* advances the player's x by velX * levelMultiplier before wrap-around.
C12_PlankCarry ==
  /\ (After("Tick") /\ StayedPut) =>
       \A k \in 1..Len(Supports) : view.frog.velX = Supports[k].velX
  /\ (After("Tick") /\ Len(Supports) = 0) => view.frog.velX = 0
  /\ After("Move") => view.frog.velX = prev.frog.velX
  /\ (After("Tick") /\ StayedPut) =>
       view.frog.x = torusWrap(prev.frog.x + prev.frog.velX * prev.levelMultiplier)

C12_Witness ==
  /\ After("Tick")
  /\ StayedPut
  /\ Len(Supports) > 0
  /\ prev.frog.velX # 0
  /\ view.frog.velX = prev.frog.velX
  /\ view.frog.x = prev.frog.x + prev.frog.velX * prev.levelMultiplier

\* the game-over reset of newGameState, given the high score to keep
IsFreshGame(g, high) ==
  /\ g.level = 1
  /\ g.levelMultiplier = 5
  /\ g.livesCount = 3
  /\ g.destScore = 0
  /\ g.fliesScore = 0
  /\ g.moveScore = 0
  /\ g.totalScore = 0
  /\ g.highScore = high
  /\ g.gameOver = FALSE
  /\ g.levelPassed = FALSE
  /\ g.reachDestCount = 0
  /\ g.time = 0
  /\ InitialLayout(g)

\* C13: a Restart event applied to a non-terminal state changes gameOver
\* to true and nothing else; newGameState of the result is the full
\* game-over reset with the high score kept.
C13_RestartIndirection ==
  /\ After("Restart") =>
       /\ view = [prev EXCEPT !.gameOver = TRUE]
       /\ IsFreshGame(newGameState(view), prev.highScore)
  /\ (After("NewGame") /\ prev.livesCount > 0) => IsFreshGame(s, prev.highScore)

C13_Witness ==
  /\ After("NewGame")
  /\ prev.gameOver
  /\ prev.livesCount > 0
  /\ prev.moveScore > 0
  /\ s.moveScore = 0

\* the bodies moveBody is applied to on a Tick
MovingBodies(g) ==
  {g.frog} \cup UNION {{q[k] : k \in 1..Len(q)} :
     q \in {g.vehicles, g.vehicles2, g.vehicles3, g.vehicles4,
            g.planks, g.planks2, g.planks3, g.croc, g.crocHead}}

\* the arguments torusWrap was called with on the last Tick
WrapArguments == {b.x + b.velX * prev.levelMultiplier : b \in MovingBodies(prev)}

\* C14: for every x in [-width, 2 * width], torusWrap(x) is in [0, width)
\* and torusWrap(torusWrap(x)) = torusWrap(x).
C14_WrapInRangeIdempotent ==
  After("Tick") =>
    \A x \in WrapArguments :
      (x >= -Px(CANVAS_WIDTH) /\ x <= 2 * Px(CANVAS_WIDTH)) =>
        /\ torusWrap(x) >= 0
        /\ torusWrap(x) < Px(CANVAS_WIDTH)
        /\ torusWrap(torusWrap(x)) = torusWrap(x)

\* C15: a Move(dx, dy, isScore) adds (dx, dy) to the player's position,
\* adds 10 to moveScore exactly when isScore holds and the player's y
\* before the move is above 100, and changes nothing else.
C15_MoveFrame ==
  After("Move") =>
    view = [prev EXCEPT
             !.frog = [prev.frog EXCEPT !.x = prev.frog.x + last.ev.x,
                                        !.y = prev.frog.y + last.ev.y],
             !.moveScore = IF last.ev.isScore /\ prev.frog.y > Px(100)
                           THEN prev.moveScore + 10 ELSE prev.moveScore]

C15_Witness ==
  /\ After("Move")
  /\ last.ev.isScore
  /\ prev.frog.y <= Px(100)
  /\ view.frog.y = prev.frog.y - Px(50)
  /\ view.moveScore = prev.moveScore

\* a terminal flag is raised in the state last handed to updateView
Terminal(g) == g.gameOver \/ g.levelPassed

\* C16: once a state with gameOver or levelPassed is emitted its stream is
\* unsubscribed and the next stream is seeded with newGameState's output;
\* reduceState is only ever applied to states with both flags false, and
\* at most one stream is subscribed at any time.
C16_OneStreamNoTerminalInput ==
  /\ Reduced => ~Terminal(prev)
  /\ subs <= 1
  /\ (mode = "playing") <=> (subs = 1)
  /\ mode = "playing" => ~Terminal(s)
  /\ (Reduced /\ view.gameOver) => (mode = "gameover" /\ s = view)
  /\ (Reduced /\ view.levelPassed /\ ~view.gameOver) =>
       (s.level = view.level + 1 /\ s.time = 0 /\ clock = 0)
  /\ After("NewGame") => (s.level = 1 /\ s.livesCount = 3 /\ clock = 0)

C16_Witness ==
  /\ After("Move")
  /\ prev.level = 2
  /\ prev.time = 0
  /\ view.level = 2
  /\ subs = 1

\* C17: a Tick that arrives while the player's x is at or beyond a
\* horizontal edge (x <= 0 or x >= 600) takes one life and puts the player
\* on the start position.
C17_EdgeCostsLife ==
  (After("Tick") /\ (prev.frog.x <= 0 \/ prev.frog.x >= Px(CANVAS_WIDTH))) =>
    /\ view.livesCount = prev.livesCount - 1
    /\ view.frog.x = Px(FROG_START_X)
    /\ view.frog.y = Px(FROG_START_Y)

\* the goal zones reached so far in this level: those shifted off the
\* field and the one recorded as just reached
ReachedZones(g) ==
  {g.destinations[k].id : k \in {j \in 1..Len(g.destinations) :
      \/ g.destinations[j].y # startDest[j].y
      \/ g.destinations[j].id = g.reachDestID}}

\* C18: within a level every goal zone is counted at most once, so
\* reachDestCount never exceeds the number of distinct zones reached and
\* levelPassed is raised only after five distinct zones.
C18_ZoneCountedOnce ==
  Reduced =>
    /\ view.reachDestCount <= Cardinality(ReachedZones(view))
    /\ view.levelPassed => Cardinality(ReachedZones(view)) = DESTINATION_COUNT

\* C19: after a Tick gameOver is true exactly when livesCount was 0 before
\* it; the tick that takes the last life leaves gameOver false and the
\* stream running, Moves keep livesCount, and the tick after that raises
\* gameOver.
C19_GameOverOneTickLate ==
  /\ After("Tick") => (view.gameOver <=> (prev.livesCount = 0))
  /\ (After("Tick") /\ prev.livesCount = 1 /\ view.livesCount = 0) =>
       (~view.gameOver /\ mode = "playing" /\ s.livesCount = 0)
  /\ After("Move") => (view.livesCount = prev.livesCount /\ mode = "playing")

C19_Witness ==
  /\ After("Tick")
  /\ prev.livesCount = 1
  /\ view.livesCount = 0
  /\ ~view.gameOver
  /\ mode = "playing"

\* C20: when a Tick has left reachDestCount at 5, Moves leave it there and
\* the next Tick produces levelPassed = true, upon which the driver
\* advances to the next level.
C20_PassedOnNextTick ==
  /\ After("Move") => view.reachDestCount = prev.reachDestCount
  /\ (After("Tick") /\ prev.reachDestCount = DESTINATION_COUNT) =>
       /\ view.levelPassed
       /\ mode = "playing"
       /\ s.level = view.level + 1

\* the goal zone with the given identifier lies above the field
ShiftedOff(g, id) ==
  \A k \in 1..Len(g.destinations) :
    g.destinations[k].id = id => g.destinations[k].y < 0

\* C21: a Tick whose post-motion player overlaps a goal zone yields, in the
\* same tick, reachDestID = that zone, reachDestCount + 1, destScore + 100,
\* the player on the start position and that zone shifted off the field; a
\* Tick without goal overlap keeps reachDestCount and destScore.
C21_GoalResolvedSameTick ==
  After("Tick") =>
    IF Len(collidedEnd(Moved)) > 0
    THEN /\ view.reachDestID = collidedEnd(Moved)[1].id
         /\ view.reachDestCount = prev.reachDestCount + 1
         /\ view.destScore = prev.destScore + 100
         /\ view.frog.x = Px(FROG_START_X)
         /\ view.frog.y = Px(FROG_START_Y)
         /\ ShiftedOff(view, view.reachDestID)
    ELSE /\ view.reachDestCount = prev.reachDestCount
         /\ view.destScore = prev.destScore

\* the player overlaps some body of the row
OverlapsRow(g, row) == \E k \in 1..Len(row) : bodiesCollided(g.frog, row[k])

OnVehicle(g) ==
  \E row \in {g.vehicles, g.vehicles2, g.vehicles3, g.vehicles4} : OverlapsRow(g, row)

OnSupport(g) ==
  \E row \in {g.planks, g.planks2, g.planks3, g.croc} : OverlapsRow(g, row)

OnCrocHead(g) == OverlapsRow(g, g.crocHead)

AtEdge(g) == g.frog.x <= 0 \/ g.frog.x >= Px(CANVAS_WIDTH)

InWater(g) == g.frog.y >= Px(50) /\ g.frog.y <= Px(250) /\ ~OnSupport(g)

AnyDeath(g) == OnVehicle(g) \/ AtEdge(g) \/ InWater(g) \/ OnCrocHead(g)

\* C22: livesCount changes only on Tick: a Tick takes exactly one life iff
\* the post-motion player overlaps a vehicle, is at a horizontal edge, is in
\* the river rows without support, or overlaps a crocodile head (supported
\* or not), and never more than one; Move and Restart keep livesCount.
C22_LivesOnlyOnDeathTick ==
  /\ After("Tick") =>
       view.livesCount = prev.livesCount - (IF AnyDeath(Moved) THEN 1 ELSE 0)
  /\ (After("Move") \/ After("Restart")) => view.livesCount = prev.livesCount

C22_Witness ==
  /\ After("Tick")
  /\ OnCrocHead(Moved)
  /\ OnSupport(Moved)
  /\ view.livesCount = prev.livesCount - 1

\* C23: after every Tick the player's y is inside the field, 0 < y < 550.
C23_VerticalInsideField ==
  After("Tick") => (0 < view.frog.y /\ view.frog.y < Px(CANVAS_HEIGHT))

\* C24: no Tick both increases reachDestCount and decreases livesCount.
C24_NoGoalWithDeath ==
  After("Tick") =>
    ~(view.reachDestCount > prev.reachDestCount /\ view.livesCount < prev.livesCount)

\* C25: after every Tick the player's x is strictly inside the field,
\* 0 < x < 600: it is the start x or an x that did not trigger the edge test.
C25_HorizontalInsideField ==
  After("Tick") =>
    /\ 0 < view.frog.x
    /\ view.frog.x < Px(CANVAS_WIDTH)
    /\ (view.frog.x = Px(FROG_START_X) \/ (view.frog.x = Moved.frog.x /\ ~AtEdge(Moved)))

C25_Witness ==
  /\ After("Tick")
  /\ AtEdge(Moved)
  /\ Len(collidedEnd(Moved)) = 0
  /\ view.frog.x = Px(FROG_START_X)
====
